---- MODULE Spec2Model ----
(***************************************************************************)
(* The molmo2_hack demo pipeline: three command-line programs that share   *)
(* only the file system.                                                   *)
(*   Fetcher    scripts/download_sample_video.py                            *)
(*   Framer     scripts/extract_frames.py                                   *)
(*   Summarizer scripts/run_molmo2_frames.py                                *)
(* File names are sequences of one-character strings, so that lower(),     *)
(* endswith(), substring search, the *.jpg glob and the filename sort are   *)
(* computed character by character as Python computes them.                 *)
(***************************************************************************)
EXTENDS Integers, Sequences, FiniteSets, TLC

VARIABLES
    \* ---- Fetcher (download_sample_video.py) ----
    fpc,          \* position of the Fetcher process
    ferr,         \* the exception that ended the run, "" if none
    videosDir,    \* videos/ exists
    tar_path,     \* the file hf_hub_download returned, abstracted to its member count (-1: none yet)
    localTar,     \* videos/train.tar: <<>> when absent, <<archive>> when present
    members,      \* local variable members
    target,       \* local variable target: <<>> before the selection, <<member>> after
    files,        \* the regular files under videos/ other than train.tar: name -> content, 0 when absent
    \* ---- Framer and Summarizer (extract_frames.py, run_molmo2_frames.py) ----
    pc,           \* position of the running program ("idle" when none runs)
    err,          \* the exception that ended the run, "" if none
    video_exists, \* Path(args.video).exists()
    max_frames,   \* args.max_frames of the running program
    outDirExists, \* the frames directory exists
    dir,          \* the names of the files in the frames directory
    invoked,      \* this run has spawned ffmpeg
    produced,     \* the number of frames ffmpeg wrote in this run
    frames,       \* local variable frames (both programs)
    report,       \* the count Framer prints in "Extracted <n> frames", -1 before
    images,       \* Summarizer's local variable images
    loaded,       \* processor and model are loaded
    messages,     \* Summarizer's local variable messages
    printed,      \* the summary text was printed
    \* ---- frame naming (ffmpeg's %04d.jpg against sorted()) ----
    idx,          \* an extraction index
    order         \* how sorted() orders frame idx and frame idx + 1

fetcherVars == <<fpc, ferr, videosDir, tar_path, localTar, members, target, files>>
framesVars == <<pc, err, video_exists, max_frames, outDirExists, dir, invoked,
                produced, frames, report, images, loaded, messages, printed>>
namingVars == <<idx, order>>
vars == <<fetcherVars, framesVars, namingVars>>

----------------------------------------------------------------------------
\* Bounds of the model.
MaxMembers == 2
MaxProduced == 3
MaxFramesArg == 3
MaxIndex == 10000

----------------------------------------------------------------------------
\* Characters and strings.

Range(s) == {s[i] : i \in 1..Len(s)}
Min2(a, b) == IF a < b THEN a ELSE b
Max2(a, b) == IF a > b THEN a ELSE b

DigitChars == <<"0", "1", "2", "3", "4", "5", "6", "7", "8", "9">>
UpperChars == <<"A", "B", "C", "D", "E", "F", "G", "H", "I", "J", "K", "L", "M",
                "N", "O", "P", "Q", "R", "S", "T", "U", "V", "W", "X", "Y", "Z">>
LowerChars == <<"a", "b", "c", "d", "e", "f", "g", "h", "i", "j", "k", "l", "m",
                "n", "o", "p", "q", "r", "s", "t", "u", "v", "w", "x", "y", "z">>

Digits == Range(DigitChars)
Uppers == Range(UpperChars)

IndexOf(c, s) == CHOOSE i \in 1..Len(s) : s[i] = c

\* The code point of a character (ASCII).
Ord(c) ==
    IF c = "." THEN 46
    ELSE IF c \in Digits THEN 47 + IndexOf(c, DigitChars)
    ELSE IF c \in Uppers THEN 64 + IndexOf(c, UpperChars)
    ELSE 96 + IndexOf(c, LowerChars)

\* str.lower()
LowerChar(c) == IF c \in Uppers THEN LowerChars[IndexOf(c, UpperChars)] ELSE c
Lower(s) == [i \in 1..Len(s) |-> LowerChar(s[i])]

\* str.endswith(suffix)
EndsWith(s, suffix) ==
    /\ Len(s) >= Len(suffix)
    /\ SubSeq(s, Len(s) - Len(suffix) + 1, Len(s)) = suffix

\* sub in s
Contains(s, sub) ==
    \E i \in 1..(Len(s) - Len(sub) + 1) : SubSeq(s, i, i + Len(sub) - 1) = sub

\* Python's order on str: the first differing character decides, a proper prefix is smaller.
StrLess(a, b) ==
    \E i \in 1..(Min2(Len(a), Len(b)) + 1) :
        /\ SubSeq(a, 1, i - 1) = SubSeq(b, 1, i - 1)
        /\ \/ i > Len(a) /\ i <= Len(b)
           \/ i <= Len(a) /\ i <= Len(b) /\ Ord(a[i]) < Ord(b[i])

\* sorted(paths) of the files of one directory
RECURSIVE Sorted(_)
Sorted(S) ==
    IF S = {} THEN <<>>
    ELSE LET m == CHOOSE x \in S : \A y \in S : x = y \/ StrLess(x, y)
         IN <<m>> \o Sorted(S \ {m})

\* The index a Python slice bound n denotes in a list of length len.
SliceIndex(n, len) == IF n < 0 THEN Max2(len + n, 0) ELSE Min2(n, len)
\* Mutant of SliceFrom: the slice starts one element late.
SliceFromOffByOne(s, n) == SubSeq(s, SliceIndex(n, Len(s)) + 2, Len(s))
\* Mutant of SliceTo: the slice ends one element early.
SliceToOffByOne(s, n) == SubSeq(s, 1, SliceIndex(n, Len(s)) - 1)

\* s[n:]
SliceFrom(s, n) == SubSeq(s, SliceIndex(n, Len(s)) + 1, Len(s))
\* s[:n]
SliceTo(s, n) == SubSeq(s, 1, SliceIndex(n, Len(s)))

----------------------------------------------------------------------------
\* Fetcher: scripts/download_sample_video.py

Mp4Suffix == <<".", "m", "p", "4">>
KwAccident == <<"a", "c", "c", "i", "d", "e", "n", "t">>
KwCrash == <<"c", "r", "a", "s", "h">>
KwCollision == <<"c", "o", "l", "l", "i", "s", "i", "o", "n">>

SampleName == <<"s", "a", "m", "p", "l", "e", ".", "m", "p", "4">>

\* Member names an archive may hold.
NamePlain == <<"a", ".", "m", "p", "4">>
NameUpperCrash == <<"C", "R", "A", "S", "H", ".", "M", "P", "4">>
NameAccident == <<"a", "c", "c", "i", "d", "e", "n", "t", ".", "m", "p", "4">>
NameCollision == <<"c", "o", "l", "l", "i", "s", "i", "o", "n", ".", "m", "p", "4">>
NameCrashText == <<"c", "r", "a", "s", "h", ".", "t", "x", "t">>
MemberNames == {NamePlain, SampleName, NameUpperCrash, NameAccident, NameCollision,
                NameCrashText}
Contents == {1, 2}
Members == [name : MemberNames, data : Contents]
Archives == UNION {[1..n -> Members] : n \in 0..MaxMembers}
FileNames == MemberNames

\* m.name.lower().endswith(".mp4")
IsVideoMember(m) == EndsWith(Lower(m.name), Mp4Suffix)

\* "accident" in n or "crash" in n or "collision" in n, n = m.name.lower()
HasKeyword(m) ==
    LET n == Lower(m.name)
    IN Contains(n, KwAccident) \/ Contains(n, KwCrash) \/ Contains(n, KwCollision)

\* [m for m in tf.getmembers() if ...]
RECURSIVE VideoMembers(_)
VideoMembers(archive) ==
    IF archive = <<>> THEN <<>>
    ELSE IF IsVideoMember(Head(archive))
         THEN <<Head(archive)>> \o VideoMembers(Tail(archive))
         ELSE VideoMembers(Tail(archive))

\* The for loop with break: <<>> for preferred = None.
RECURSIVE Preferred(_)
Preferred(ms) ==
    IF ms = <<>> THEN <<>>
    ELSE IF HasKeyword(Head(ms)) THEN <<Head(ms)>>
    ELSE Preferred(Tail(ms))

\* Mutant of Target: the preference is dropped, the first video member is taken.
TargetFirst(ms) == <<ms[1]>>

\* target = preferred or members[0]
Target(ms) == IF Preferred(ms) # <<>> THEN Preferred(ms) ELSE <<ms[1]>>

\* Mutant of CopyTar: the copy is written on every run.
CopyTarAlways(local, remote) == <<remote>>

\* if not local_tar.exists(): local_tar.write_bytes(...)
CopyTar(local, remote) == IF local = <<>> THEN <<remote>> ELSE local

FetcherStart ==
    /\ fpc = "idle"
    /\ videosDir' = TRUE
    /\ fpc' = "download"
    /\ UNCHANGED <<ferr, tar_path, localTar, members, target, files>>

FetcherDownload ==
    /\ fpc = "download"
    /\ \/ \E remote \in Archives :
              /\ tar_path' = Len(remote)
              /\ localTar' = CopyTar(localTar, remote)
              /\ fpc' = "open"
              /\ UNCHANGED ferr
       \/ /\ fpc' = "failed"
          /\ ferr' = "download"
          /\ UNCHANGED <<tar_path, localTar>>
    /\ UNCHANGED <<videosDir, members, target, files>>

\* Mutant of FetcherOpenTar: an archive without a video ends the run silently.
FetcherOpenTarSilent ==
    /\ fpc = "open"
    /\ members' = VideoMembers(localTar[1])
    /\ IF members' = <<>>
       THEN fpc' = "done"
       ELSE fpc' = "extract"
    /\ UNCHANGED <<ferr, videosDir, tar_path, localTar, target, files>>

FetcherOpenTar ==
    /\ fpc = "open"
    /\ members' = VideoMembers(localTar[1])
    /\ IF members' = <<>>
       THEN fpc' = "failed" /\ ferr' = "no_mp4"
       ELSE fpc' = "extract" /\ UNCHANGED ferr
    /\ UNCHANGED <<videosDir, tar_path, localTar, target, files>>

FetcherExtract ==
    /\ fpc = "extract"
    /\ target' = Target(members)
    /\ files' = [files EXCEPT ![target'[1].name] = target'[1].data]
    /\ fpc' = "normalize"
    /\ UNCHANGED <<ferr, videosDir, tar_path, localTar, members>>

FetcherNormalize ==
    /\ fpc = "normalize"
    /\ files' = [files EXCEPT ![SampleName] = files[target[1].name]]
    /\ fpc' = "done"
    /\ UNCHANGED <<ferr, videosDir, tar_path, localTar, members, target>>

FetcherExit ==
    /\ fpc \in {"done", "failed"}
    /\ fpc' = "idle"
    /\ ferr' = ""
    /\ tar_path' = -1
    /\ members' = <<>>
    /\ target' = <<>>
    /\ UNCHANGED <<videosDir, localTar, files>>

FetcherLocalsInit ==
    /\ fpc = "idle"
    /\ ferr = ""
    /\ tar_path = -1
    /\ members = <<>>
    /\ target = <<>>

FramesIdle ==
    /\ pc = "idle"
    /\ err = ""
    /\ video_exists = FALSE
    /\ max_frames = 0
    /\ outDirExists = FALSE
    /\ dir = {}
    /\ invoked = FALSE
    /\ produced = 0
    /\ frames = <<>>
    /\ report = -1
    /\ images = <<>>
    /\ loaded = FALSE
    /\ messages = <<>>
    /\ printed = FALSE

NamingIdle ==
    /\ idx = 1
    /\ order = "unknown"

FetcherInit ==
    /\ FetcherLocalsInit
    /\ videosDir \in BOOLEAN
    /\ localTar = <<>>
    /\ files \in {f \in [FileNames -> {0} \cup Contents] :
                     /\ \A n \in FileNames \ {SampleName} : f[n] = 0
                     /\ (f[SampleName] # 0 => videosDir)}
    /\ FramesIdle
    /\ NamingIdle

FetcherNext ==
    \/ FetcherStart /\ UNCHANGED <<framesVars, namingVars>>
    \/ FetcherDownload /\ UNCHANGED <<framesVars, namingVars>>
    \/ FetcherOpenTar /\ UNCHANGED <<framesVars, namingVars>>
    \/ FetcherExtract /\ UNCHANGED <<framesVars, namingVars>>
    \/ FetcherNormalize /\ UNCHANGED <<framesVars, namingVars>>
    \/ FetcherExit /\ UNCHANGED <<framesVars, namingVars>>

FetcherSpec == FetcherInit /\ [][FetcherNext]_vars

----------------------------------------------------------------------------
\* Framer: scripts/extract_frames.py

PadWidth == 4
JpgSuffix == <<".", "j", "p", "g">>

\* The decimal digits of n >= 0, most significant first.
RECURSIVE ToDigits(_)
ToDigits(n) ==
    IF n < 10 THEN <<DigitChars[n + 1]>>
    ELSE ToDigits(n \div 10) \o <<DigitChars[(n % 10) + 1]>>

\* printf's %04d: zero-padded to at least PadWidth digits, never truncated.
RECURSIVE ZeroPad(_)
ZeroPad(d) == IF Len(d) >= PadWidth THEN d ELSE ZeroPad(<<"0">> \o d)

\* The file ffmpeg writes for its i-th output frame under the pattern %04d.jpg (i = 1, 2, ...).
FrameName(i) == ZeroPad(ToDigits(i)) \o JpgSuffix

\* Files the frames directory may hold before any run of the pipeline.
NameCover == <<"a", ".", "j", "p", "g">>
NameUpperJpg == <<"b", ".", "J", "P", "G">>
NameNotes == <<"n", ".", "t", "x", "t">>
SeedNames == {NameCover, NameUpperJpg, NameNotes}

ArgRange == -1..MaxFramesArg

\* out_dir.glob("*.jpg") (the match is case-sensitive, as on POSIX)
Glob(d) == {n \in d : EndsWith(n, JpgSuffix)}

FramerStart ==
    /\ pc = "idle"
    /\ \E v \in BOOLEAN, n \in ArgRange :
          /\ video_exists' = v
          /\ max_frames' = n
    /\ pc' = "fr_check"
    /\ UNCHANGED <<err, outDirExists, dir, invoked, produced, frames, report,
                   images, loaded, messages, printed>>

\* Mutant of FramerCheckVideo: the output directory is made before the check.
FramerCheckVideoAfterMkdir ==
    /\ pc = "fr_check"
    /\ outDirExists' = TRUE
    /\ IF ~video_exists
       THEN pc' = "fr_failed" /\ err' = "video_not_found"
       ELSE pc' = "fr_mkdir" /\ UNCHANGED err
    /\ UNCHANGED <<video_exists, max_frames, dir, invoked, produced,
                   frames, report, images, loaded, messages, printed>>

FramerCheckVideo ==
    /\ pc = "fr_check"
    /\ IF ~video_exists
       THEN pc' = "fr_failed" /\ err' = "video_not_found"
       ELSE pc' = "fr_mkdir" /\ UNCHANGED err
    /\ UNCHANGED <<video_exists, max_frames, outDirExists, dir, invoked, produced,
                   frames, report, images, loaded, messages, printed>>

FramerMkdir ==
    /\ pc = "fr_mkdir"
    /\ outDirExists' = TRUE
    /\ pc' = "fr_ffmpeg"
    /\ UNCHANGED <<err, video_exists, max_frames, dir, invoked, produced, frames,
                   report, images, loaded, messages, printed>>

\* subprocess.run(cmd, check=True): ffmpeg writes frames 1..k, overwriting (-y), and exits
\* with status zero or not.
FramerRunFfmpeg ==
    /\ pc = "fr_ffmpeg"
    /\ invoked' = TRUE
    /\ \E k \in 0..MaxProduced, ok \in BOOLEAN :
          /\ produced' = k
          /\ dir' = dir \cup {FrameName(i) : i \in 1..k}
          /\ IF ok
             THEN pc' = "fr_glob" /\ UNCHANGED err
             ELSE pc' = "fr_failed" /\ err' = "ffmpeg_exit_status"
    /\ UNCHANGED <<video_exists, max_frames, outDirExists, frames, report, images,
                   loaded, messages, printed>>

FramerGlob ==
    /\ pc = "fr_glob"
    /\ frames' = Sorted(Glob(dir))
    /\ IF frames' = <<>>
       THEN pc' = "fr_failed" /\ err' = "no_frames_extracted"
       ELSE pc' = "fr_truncate" /\ UNCHANGED err
    /\ UNCHANGED <<video_exists, max_frames, outDirExists, dir, invoked, produced,
                   report, images, loaded, messages, printed>>

\* for f in frames[args.max_frames:]: f.unlink(); then the report of the kept count.
FramerTruncate ==
    /\ pc = "fr_truncate"
    /\ dir' = dir \ Range(SliceFrom(frames, max_frames))
    /\ report' = Cardinality(Glob(dir'))
    /\ pc' = "fr_done"
    /\ UNCHANGED <<err, video_exists, max_frames, outDirExists, invoked, produced,
                   frames, images, loaded, messages, printed>>

\* The process ends; its locals are gone, the file system stays.
ProgramExit ==
    /\ pc \in {"fr_done", "fr_failed", "su_done", "su_failed"}
    /\ pc' = "idle"
    /\ err' = ""
    /\ video_exists' = FALSE
    /\ max_frames' = 0
    /\ invoked' = FALSE
    /\ produced' = 0
    /\ frames' = <<>>
    /\ report' = -1
    /\ images' = <<>>
    /\ loaded' = FALSE
    /\ messages' = <<>>
    /\ printed' = FALSE
    /\ UNCHANGED <<outDirExists, dir>>

----------------------------------------------------------------------------
\* Summarizer: scripts/run_molmo2_frames.py

SAFETY_PROMPT == "SAFETY_PROMPT"

TextBlock == [type |-> "text", text |-> SAFETY_PROMPT]
ImageBlock(img) == [type |-> "image", image |-> img]

\* messages = [{"role": "user", "content": [text, *images]}]
BuildMessages(imgs) ==
    <<[role |-> "user",
       content |-> <<TextBlock>> \o [i \in 1..Len(imgs) |-> ImageBlock(imgs[i])]]>>

SummarizerStart ==
    /\ pc = "idle"
    /\ \E n \in ArgRange : max_frames' = n
    /\ pc' = "su_glob"
    /\ UNCHANGED <<err, video_exists, outDirExists, dir, invoked, produced, frames,
                   report, images, loaded, messages, printed>>

\* Mutant of SummarizerGlob: the empty list is not rejected.
SummarizerGlobUnchecked ==
    /\ pc = "su_glob"
    /\ frames' = SliceTo(Sorted(Glob(dir)), max_frames)
    /\ pc' = "su_open"
    /\ UNCHANGED <<err, video_exists, max_frames, outDirExists, dir, invoked, produced,
                   report, images, loaded, messages, printed>>

\* frames = sorted(frame_dir.glob("*.jpg"))[: args.max_frames]
SummarizerGlob ==
    /\ pc = "su_glob"
    /\ frames' = SliceTo(Sorted(Glob(dir)), max_frames)
    /\ IF frames' = <<>>
       THEN pc' = "su_failed" /\ err' = "no_frames_found"
       ELSE pc' = "su_open" /\ UNCHANGED err
    /\ UNCHANGED <<video_exists, max_frames, outDirExists, dir, invoked, produced,
                   report, images, loaded, messages, printed>>

\* images = [Image.open(fp).convert("RGB") for fp in frames]; a file that does not decode raises.
SummarizerOpen ==
    /\ pc = "su_open"
    /\ \/ /\ images' = frames
          /\ pc' = "su_load"
          /\ UNCHANGED err
       \/ /\ pc' = "su_failed"
          /\ err' = "decode"
          /\ UNCHANGED images
    /\ UNCHANGED <<video_exists, max_frames, outDirExists, dir, invoked, produced,
                   frames, report, loaded, messages, printed>>

SummarizerLoad ==
    /\ pc = "su_load"
    /\ \/ /\ loaded' = TRUE
          /\ pc' = "su_build"
          /\ UNCHANGED err
       \/ /\ pc' = "su_failed"
          /\ err' = "load"
          /\ UNCHANGED loaded
    /\ UNCHANGED <<video_exists, max_frames, outDirExists, dir, invoked, produced,
                   frames, report, images, messages, printed>>

SummarizerBuild ==
    /\ pc = "su_build"
    /\ messages' = BuildMessages(images)
    /\ pc' = "su_generate"
    /\ UNCHANGED <<err, video_exists, max_frames, outDirExists, dir, invoked, produced,
                   frames, report, images, loaded, printed>>

SummarizerGenerate ==
    /\ pc = "su_generate"
    /\ \/ /\ printed' = TRUE
          /\ pc' = "su_done"
          /\ UNCHANGED err
       \/ /\ pc' = "su_failed"
          /\ err' = "inference"
          /\ UNCHANGED printed
    /\ UNCHANGED <<video_exists, max_frames, outDirExists, dir, invoked, produced,
                   frames, report, images, loaded, messages>>

FetcherIdle ==
    /\ FetcherLocalsInit
    /\ videosDir = FALSE
    /\ localTar = <<>>
    /\ files = [n \in FileNames |-> 0]

FramesInit ==
    /\ pc = "idle"
    /\ err = ""
    /\ video_exists = FALSE
    /\ max_frames = 0
    /\ outDirExists \in BOOLEAN
    /\ dir \in {d \in SUBSET SeedNames : d # {} => outDirExists}
    /\ invoked = FALSE
    /\ produced = 0
    /\ frames = <<>>
    /\ report = -1
    /\ images = <<>>
    /\ loaded = FALSE
    /\ messages = <<>>
    /\ printed = FALSE
    /\ FetcherIdle
    /\ NamingIdle

FramesNext ==
    \/ FramerStart /\ UNCHANGED <<fetcherVars, namingVars>>
    \/ FramerCheckVideo /\ UNCHANGED <<fetcherVars, namingVars>>
    \/ FramerMkdir /\ UNCHANGED <<fetcherVars, namingVars>>
    \/ FramerRunFfmpeg /\ UNCHANGED <<fetcherVars, namingVars>>
    \/ FramerGlob /\ UNCHANGED <<fetcherVars, namingVars>>
    \/ FramerTruncate /\ UNCHANGED <<fetcherVars, namingVars>>
    \/ SummarizerStart /\ UNCHANGED <<fetcherVars, namingVars>>
    \/ SummarizerGlob /\ UNCHANGED <<fetcherVars, namingVars>>
    \/ SummarizerOpen /\ UNCHANGED <<fetcherVars, namingVars>>
    \/ SummarizerLoad /\ UNCHANGED <<fetcherVars, namingVars>>
    \/ SummarizerBuild /\ UNCHANGED <<fetcherVars, namingVars>>
    \/ SummarizerGenerate /\ UNCHANGED <<fetcherVars, namingVars>>
    \/ ProgramExit /\ UNCHANGED <<fetcherVars, namingVars>>

FramesSpec == FramesInit /\ [][FramesNext]_vars

----------------------------------------------------------------------------
\* Frame naming against the filename sort: frame idx and the frame extracted right after it.

\* sorted() puts file a before file b
SortsBefore(a, b) == StrLess(a, b)

NamingInit ==
    /\ idx \in 1..(MaxIndex - 1)
    /\ order = "unknown"
    /\ FetcherIdle
    /\ FramesIdle

CompareNeighbours ==
    /\ order = "unknown"
    /\ order' = IF SortsBefore(FrameName(idx), FrameName(idx + 1)) THEN "before"
                ELSE "after"
    /\ UNCHANGED idx

NamingNext ==
    \/ CompareNeighbours /\ UNCHANGED <<fetcherVars, framesVars>>

NamingSpec == NamingInit /\ [][NamingNext]_vars

----------------------------------------------------------------------------
\* Properties.  The predicates below restate the claims' notions on their own, not through
\* the operators that model the code.

\* The name, lower-cased, is something followed by the suffix.
NameEndsIn(n, suffix) ==
    LET l == Lower(n)
    IN \E k \in 0..Len(n) : l = SubSeq(l, 1, k) \o suffix
\* Some stretch of the lower-cased name is an incident keyword.
NameHasIncidentKeyword(n) ==
    LET l == Lower(n)
    IN \E i \in 1..Len(n), j \in 1..Len(n) :
          SubSeq(l, i, j) \in {KwAccident, KwCrash, KwCollision}
VideoIndices(a) == {i \in 1..Len(a) : NameEndsIn(a[i].name, Mp4Suffix)}
IncidentVideoIndices(a) == {i \in VideoIndices(a) : NameHasIncidentKeyword(a[i].name)}
Least(S) == CHOOSE i \in S : \A j \in S : i <= j
ExpectedIndex(a) ==
    IF IncidentVideoIndices(a) # {} THEN Least(IncidentVideoIndices(a))
    ELSE Least(VideoIndices(a))

\* The files of d whose name is something followed by .jpg.
JpgFiles(d) == {n \in d : \E k \in 0..Len(n) : n = SubSeq(n, 1, k) \o JpgSuffix}
\* s lists, in increasing filename order, the n lowest names of S.
IsLowestSorted(s, S, n) ==
    /\ Len(s) = n
    /\ \A i \in 1..Len(s), j \in 1..Len(s) : i < j => StrLess(s[i], s[j])
    /\ Range(s) \subseteq S
    /\ \A x \in Range(s), y \in S \ Range(s) : StrLess(x, y)

FramerPcs == {"fr_check", "fr_mkdir", "fr_ffmpeg", "fr_glob", "fr_truncate", "fr_done",
              "fr_failed"}
SummarizerPcs == {"su_glob", "su_open", "su_load", "su_build", "su_generate", "su_done",
                  "su_failed"}

\* C1: when the opened archive has a video member, the run does not end in the no-match
\* error, it selects the first video member with an incident keyword if there is one and
\* the first video member otherwise, the extraction writes no file but that member's, and
\* at the end videos/sample.mp4 holds the selected member's content.
C1_SelectsIncidentElseFirst ==
    /\ [](localTar # <<>> /\ VideoIndices(localTar[1]) # {} =>
            /\ ~(fpc = "failed" /\ ferr = "no_mp4")
            /\ (fpc \in {"normalize", "done"} =>
                    target = <<localTar[1][ExpectedIndex(localTar[1])]>>)
            /\ (fpc = "done" =>
                    files[SampleName] = localTar[1][ExpectedIndex(localTar[1])].data))
    /\ [][fpc = "extract" =>
            \A n \in FileNames \ {localTar[1][ExpectedIndex(localTar[1])].name} :
                (files'[n] = files[n])]_vars

\* C1 witness: a finished run on an archive whose first member is a plain video and whose
\* second member is a video with an incident keyword.
C1_Witness ==
    /\ fpc = "done"
    /\ Len(localTar[1]) = 2
    /\ VideoIndices(localTar[1]) = {1, 2}
    /\ IncidentVideoIndices(localTar[1]) = {2}
    /\ localTar[1][1].data # localTar[1][2].data
    /\ files[SampleName] = localTar[1][2].data

\* C3: when the opened archive has no video member, the run ends in the no-match error
\* at the point where the archive is read, selects nothing, and no file under videos/
\* other than the archive copy is created or changed.
C3_NoVideoAborts ==
    /\ [](localTar # <<>> /\ VideoIndices(localTar[1]) = {} =>
            /\ fpc \notin {"extract", "normalize", "done"}
            /\ target = <<>>)
    /\ [][localTar # <<>> /\ VideoIndices(localTar[1]) = {} =>
            /\ files' = files
            /\ (fpc = "open" => fpc' = "failed" /\ ferr' = "no_mp4")]_vars

\* C3 witness: the no-match abort on a non-empty archive, with a sample file of an
\* earlier run still in place.
C3_Witness ==
    /\ fpc = "failed"
    /\ ferr = "no_mp4"
    /\ localTar # <<>>
    /\ Len(localTar[1]) >= 1
    /\ files[SampleName] # 0

\* C5: once videos/train.tar exists no run writes to it, whatever the download returns,
\* and the member a run selects is a video member of that local copy.
C5_LocalCopyKept ==
    /\ [][localTar # <<>> => localTar' = localTar]_vars
    /\ [](fpc \in {"normalize", "done"} =>
            \E i \in VideoIndices(localTar[1]) : target = <<localTar[1][i]>>)

\* C5 witness: a finished run whose download differs from the local copy it used.
C5_Witness ==
    /\ fpc = "done"
    /\ tar_path # Len(localTar[1])

\* C2: after a successful Framer run (max_frames >= 0) the directory holds exactly
\* min(produced, max_frames) .jpg files; stated here only for directories in which every
\* .jpg the run found was written by ffmpeg, in this run or an earlier one, and for runs
\* in which ffmpeg wrote at least one frame.
C2_ExactlyMinProduced ==
    pc = "fr_done" /\ max_frames >= 0 /\ produced >= 1 /\ NameCover \notin Range(frames) =>
        Cardinality(JpgFiles(dir)) = Min2(produced, max_frames)

\* C4: with a missing video the Framer run fails at its first check with the
\* video-not-found error, never spawns ffmpeg, and neither creates the output directory
\* nor creates or deletes a file.
C4_MissingVideoFailsFast ==
    /\ [](pc \in FramerPcs /\ ~video_exists =>
            /\ pc \in {"fr_check", "fr_failed"}
            /\ (pc = "fr_failed" => err = "video_not_found")
            /\ ~invoked)
    /\ [][(pc \in FramerPcs /\ ~video_exists) =>
            (/\ outDirExists' = outDirExists
             /\ dir' = dir
             /\ (pc = "fr_check" => pc' = "fr_failed"))]_vars

\* C4 witness: the abort, with the output directory still missing.
C4_Witness ==
    /\ pc = "fr_failed"
    /\ err = "video_not_found"
    /\ ~outDirExists

\* C6: with no .jpg file in the frame directory the Summarizer run ends in the
\* no-frames error with nothing decoded, nothing loaded, no request built and nothing
\* printed.
C6_NoFramesAbortsBeforeLoad ==
    pc \in SummarizerPcs \ {"su_glob"} /\ JpgFiles(dir) = {} =>
        /\ pc = "su_failed"
        /\ err = "no_frames_found"
        /\ images = <<>>
        /\ ~loaded
        /\ messages = <<>>
        /\ ~printed

\* C6 witness: the abort on a directory that holds files, none of them .jpg, with a
\* positive max_frames.
C6_Witness ==
    /\ pc = "su_failed"
    /\ err = "no_frames_found"
    /\ max_frames >= 1
    /\ dir # {}
    /\ JpgFiles(dir) = {}

\* What C8 says of a run with k >= 1 .jpg files, for the runs the guard admits.
C8_Body ==
    LET k == Cardinality(JpgFiles(dir))
    IN /\ err # "no_frames_found"
       /\ IsLowestSorted(frames, JpgFiles(dir), Min2(k, max_frames))
       /\ (pc \in {"su_load", "su_build", "su_generate", "su_done"} => images = frames)
       /\ (pc \in {"su_generate", "su_done"} =>
              /\ Len(messages) = 1
              /\ messages[1].role = "user"
              /\ Len(messages[1].content) = Len(frames) + 1
              /\ messages[1].content[1] = [type |-> "text", text |-> SAFETY_PROMPT]
              /\ \A i \in 1..Len(frames) :
                    messages[1].content[i + 1] = [type |-> "image", image |-> frames[i]])

\* C8 as stated, for every max_frames >= 0: with k >= 1 .jpg files the run does not end
\* in the no-frames error, loads the first min(k, max_frames) files in sorted order, and
\* its one user request is the safety text followed by those images in that order.
C8_LoadsFirstFrames ==
    pc \in SummarizerPcs \ {"su_glob"} /\ JpgFiles(dir) # {} /\ max_frames >= 0 => C8_Body

\* C8 amended, for every max_frames >= 1.
C8_LoadsFirstFramesPositiveMax ==
    pc \in SummarizerPcs \ {"su_glob"} /\ JpgFiles(dir) # {} /\ max_frames >= 1 => C8_Body

\* C8 witness: a finished run in which the cap cut the sorted list.
C8_Witness ==
    /\ pc = "su_done"
    /\ max_frames >= 2
    /\ Cardinality(JpgFiles(dir)) > max_frames
    /\ Len(messages[1].content) = max_frames + 1

\* C9: when ffmpeg exited with status zero and wrote no frame, the Framer run ends in the
\* no-frames-extracted error; stated here only for directories in which every .jpg was
\* written by ffmpeg in an earlier run.
C9_NothingProducedFails ==
    /\ pc \in {"fr_truncate", "fr_done", "fr_failed"}
    /\ invoked
    /\ err # "ffmpeg_exit_status"
    /\ produced = 0
    /\ NameCover \notin dir
    => pc = "fr_failed" /\ err = "no_frames_extracted"

\* C10: after a successful Framer run with max_frames >= 0 the .jpg files of the directory
\* are the min(n, max_frames) lowest-sorting of the n .jpg files present after the
\* extraction step, and no step creates or removes a file that is not a .jpg.
C10_KeepsLowestSorted ==
    /\ [](pc = "fr_truncate" => Range(frames) = JpgFiles(dir))
    /\ [](pc = "fr_done" /\ max_frames >= 0 =>
            /\ Cardinality(JpgFiles(dir)) <= max_frames
            /\ IsLowestSorted(Sorted(JpgFiles(dir)), Range(frames),
                              Min2(Len(frames), max_frames)))
    /\ [][dir' \ JpgFiles(dir') = dir \ JpgFiles(dir)]_vars

\* C10 witness: a successful run that found a frame of an earlier run next to its own,
\* deleted at least one file and kept at least one, beside a file that is not a .jpg.
C10_Witness ==
    /\ pc = "fr_done"
    /\ produced = 1
    /\ FrameName(2) \in Range(frames)
    /\ max_frames >= 1
    /\ Len(frames) > max_frames
    /\ NameNotes \in dir

\* C7: the frame extracted right after frame idx sorts after it by filename.
C7_FilenameOrderIsTemporal == order # "after"

====
